---- MODULE Spec2Model ----
(***************************************************************************)
(* Verification model of the gazette segmentation pipeline:                *)
(*   JSON_HEADER.py      group_by_despacho_with_metadata  (Segmenter)      *)
(*   TXT_PROCESSING.py   front / back truncation          (Stripper)       *)
(*   people.py           extract_people_from_chunk        (NameNormalizer) *)
(*   DIVIDE_TXT.py       divide_txt_and_update_json       (Orchestrator)   *)
(* Texts are sequences of tokens (or of characters where the code works on *)
(* characters); every sub-model has its own specification.                 *)
(***************************************************************************)
EXTENDS Integers, Sequences, FiniteSets, TLC

VARIABLES
    \* ---- Segmenter (JSON_HEADER.py) ----
    extracted_doc,      \* the token sequence of the document being segmented
    doc_ents,           \* extracted_doc.ents: labelled token spans, in document order
    all_ents,           \* sorted(secretaria_ents + des_ents, key=start)
    i,                  \* loop index of "for i, ent in enumerate(all_ents)"
    current_secretaria, \* text of the last SECRETARIA entity seen (<<>> is None)
    result,             \* the dict being built, as an insertion-ordered list of items
    emitted,            \* history: which match wrote which item of result
    \* ---- Batch loops over files (TXT_PROCESSING.py, DIVIDE_TXT.py, JSON_HEADER.py) ----
    pass,               \* which batch loop is running
    nfiles,             \* number of files the loop iterates over
    file_no,            \* 1-based position of the file of the current iteration
    outcome,            \* per file: "pending", how its iteration ended, or the exception
    aborted,            \* an exception has left the loop: the batch is over
    first_key,          \* truncate pass: first key of the record file (<<>> is None)
    file_text,          \* content read from the current text file
    written,            \* <<content>> written for the current file, <<>> if nothing was
    txt_stem,           \* divide pass: txt_path.stem
    serie_str,          \* divide pass: derived series
    date_str,           \* divide pass: derived date
    \* ---- NameNormalizer (people.py) ----
    chunk_text,         \* the text argument of extract_people_from_chunk
    tagged_per,         \* texts of the entities of nlp(text) labelled PER, in order
    stages,             \* person_entities after each stage of the last run
    people,             \* the list extract_people_from_chunk returned
    people_again,       \* the stages applied to that list as candidates
    \* ---- Segment writing (DIVIDE_TXT.py divide_txt_and_update_json) ----
    div_data,           \* data: the loaded record set, an insertion-ordered dict
    div_content,        \* content: the cleaned text
    div_matches,        \* matches: the header matches of content, in order
    div_idx,            \* loop index of "for idx, match in enumerate(matches)"
    div_files,          \* the files of file_dir on disk: name -> text
    json_on_disk,       \* the record file on disk
    pc                  \* control point of the function being run

segVars == <<extracted_doc, doc_ents, all_ents, i, current_secretaria, result, emitted>>

batchVars == <<pass, nfiles, file_no, outcome, aborted, first_key, file_text, written, txt_stem,
               serie_str, date_str>>

peopleVars == <<chunk_text, tagged_per, stages, people, people_again>>

divVars == <<div_data, div_content, div_matches, div_idx, div_files, json_on_disk>>

vars == <<extracted_doc, doc_ents, all_ents, i, current_secretaria, result, emitted,
          pass, nfiles, file_no, outcome,
          aborted, first_key, file_text, written, txt_stem, serie_str, date_str,
          chunk_text, tagged_per, stages, people, people_again,
          div_data, div_content, div_matches, div_idx, div_files, json_on_disk, pc>>

(***************************************************************************)
(* Generic sequence helpers (Python list / str primitives).                *)
(***************************************************************************)
Range(s) == {s[k] : k \in 1..Len(s)}

\* All sequences over S of length 0..n.
SeqsUpTo(S, n) == UNION {[1..k -> S] : k \in 0..n}

\* min(S) and max(S) of a non-empty set of integers.
Least(S) == CHOOSE q \in S : \A r \in S : q <= r

Greatest(S) == CHOOSE q \in S : \A r \in S : r <= q

RECURSIVE Concat(_)
\* "".join / list flattening: the concatenation of a sequence of sequences.
Concat(ss) == IF ss = <<>> THEN <<>> ELSE Head(ss) \o Concat(Tail(ss))

\* s[a:b] for 0 <= a, b (Python slice, 0-based, end exclusive, clipped).
Slice(s, a, b) == SubSeq(s, a + 1, IF b > Len(s) THEN Len(s) ELSE b)

\* s.startswith(p) at 0-based offset k.
MatchesAt(s, p, k) == k + Len(p) <= Len(s) /\ SubSeq(s, k + 1, k + Len(p)) = p

RECURSIVE Replace(_, _)
\* str.replace(old, ""): delete the leftmost non-overlapping occurrences of old.
Replace(s, old) ==
    IF old = <<>> \/ Len(s) < Len(old) THEN s
    ELSE IF MatchesAt(s, old, 0) THEN Replace(Slice(s, Len(old), Len(s)), old)
    ELSE <<Head(s)>> \o Replace(Tail(s), old)

\* The whitespace tokens / characters str.strip() and str.split() act on.
Whitespace == {" ", "\n"}

RECURSIVE LStrip(_)
LStrip(s) == IF s # <<>> /\ Head(s) \in Whitespace THEN LStrip(Tail(s)) ELSE s

RECURSIVE RStrip(_)
RStrip(s) ==
    IF s # <<>> /\ s[Len(s)] \in Whitespace THEN RStrip(SubSeq(s, 1, Len(s) - 1)) ELSE s

\* str.strip()
Strip(s) == RStrip(LStrip(s))

(***************************************************************************)
(* Segmenter: JSON_HEADER.py, group_by_despacho_with_metadata.             *)
(***************************************************************************)
\* Bound: number of blocks (entities or runs of untagged text) of a document.
MaxBlocks == 4

filename == "doc.txt"

\* The building blocks of a document: a labelled entity or untagged text.
\* "SUM:" entities are in doc.ents but belong to neither filtered list.
Blocks ==
    { [label |-> "SECRETARIA", toks |-> <<"SECRETARIA", "X">>],
      [label |-> "SECRETARIA", toks |-> <<"SECRETARIA", "Y">>],
      [label |-> "DES",        toks |-> <<"Despacho", "1">>],
      [label |-> "DES",        toks |-> <<"Despacho", "\n", "1">>],
      [label |-> "DES",        toks |-> <<"Despacho", "2">>],
      [label |-> "SUM:",       toks |-> <<"Sumario">>],
      [label |-> "",           toks |-> <<"txt">>],
      [label |-> "",           toks |-> <<"\n", "SECRETARIA", "X">>] }

\* Token offset at which block k of bs starts.
RECURSIVE BlockStart(_, _)
BlockStart(bs, k) == IF k = 1 THEN 0 ELSE BlockStart(bs, k - 1) + Len(bs[k - 1].toks)

DocOf(bs) == Concat([k \in 1..Len(bs) |-> bs[k].toks])

RECURSIVE EntsFrom(_, _)
\* doc.ents of a document made of blocks bs: the labelled spans, left to right.
EntsFrom(bs, k) ==
    IF k > Len(bs) THEN <<>>
    ELSE (IF bs[k].label = "" THEN <<>>
          ELSE << [label |-> bs[k].label,
                   start |-> BlockStart(bs, k),
                   end   |-> BlockStart(bs, k) + Len(bs[k].toks)] >>)
         \o EntsFrom(bs, k + 1)

\* ent.text
EntText(doc, ent) == Slice(doc, ent.start, ent.end)

\* [ent for ent in doc.ents if ent.label_ == label]
RECURSIVE FilterLabel(_, _)
FilterLabel(ents, label) ==
    IF ents = <<>> THEN <<>>
    ELSE (IF Head(ents).label = label THEN <<Head(ents)>> ELSE <<>>)
         \o FilterLabel(Tail(ents), label)

\* Insert e into the start-sorted list s after every element with start <= e.start.
RECURSIVE InsertByStart(_, _)
InsertByStart(s, e) ==
    IF s = <<>> THEN <<e>>
    ELSE IF Head(s).start <= e.start THEN <<Head(s)>> \o InsertByStart(Tail(s), e)
    ELSE <<e>> \o s

\* Variant of SortedByStart: the concatenation is walked as it is, not sorted.
Unsorted(ents) == ents

\* sorted(ents, key=lambda x: x.start): a stable sort.
RECURSIVE SortedByStart(_)
SortedByStart(ents) ==
    IF ents = <<>> THEN <<>>
    ELSE InsertByStart(SortedByStart(SubSeq(ents, 1, Len(ents) - 1)), ents[Len(ents)])

\* Lines 187-189.
AllEnts(ents) == SortedByStart(FilterLabel(ents, "SECRETARIA") \o FilterLabel(ents, "DES"))

\* Line 211: key = ent.text.replace("\n", "")
KeyOf(text) == Replace(text, <<"\n">>)

\* Mutant of ChunkEnd: the chunk stops at the end of the header match itself.
ChunkEndAtHeader(doc, ents, k) == ents[k].end

\* Line 197: end of the chunk of the match at (1-based) position k of ents.
ChunkEnd(doc, ents, k) == IF k + 1 <= Len(ents) THEN ents[k + 1].start ELSE Len(doc)

\* Line 198: extracted_doc[start:end].text.replace(current_secretaria, "").strip()
ChunkOf(doc, ents, k, secretaria) ==
    Strip(Replace(Slice(doc, ents[k].start, ChunkEnd(doc, ents, k)), secretaria))

\* Lines 200-208. The tagger finds no person in these tokens.
Metadata(chunk, secretaria) ==
    [ chunk      |-> chunk,
      data       |-> "",
      autor      |-> <<>>,
      pessoas    |-> <<>>,
      serie      |-> "",
      secretaria |-> secretaria,
      PDF        |-> filename ]

\* key in result
DictHas(d, key) == \E k \in 1..Len(d) : d[k].key = key

\* result[key] = val (assignment to an insertion-ordered dict)
DictSet(d, key, val) ==
    IF DictHas(d, key)
    THEN [k \in 1..Len(d) |-> IF d[k].key = key THEN [key |-> key, val |-> val] ELSE d[k]]
    ELSE Append(d, [key |-> key, val |-> val])

\* Mutant of AddFirstOnly: the "if key not in result" guard is lost.
AddAlways(d, key, metadata) == DictSet(d, key, <<metadata>>)

\* Lines 212-213: only the first metadata per title is added.
AddFirstOnly(d, key, metadata) ==
    IF ~DictHas(d, key) THEN DictSet(d, key, <<metadata>>) ELSE d

\* The NameNormalizer variables while no chunk is being processed.
PeopleIdle ==
    /\ chunk_text = <<>>
    /\ tagged_per = <<>>
    /\ stages = <<>>
    /\ people = <<>>
    /\ people_again = <<>>

\* The segment-writing variables while no document is being divided.
DivideIdle ==
    /\ div_data = <<>>
    /\ div_content = <<>>
    /\ div_matches = <<>>
    /\ div_idx = 0
    /\ div_files = <<>>
    /\ json_on_disk = <<>>

\* The batch-loop variables while no batch loop runs.
BatchIdle ==
    /\ pass = "none"
    /\ nfiles = 0
    /\ file_no = 0
    /\ outcome = <<>>
    /\ aborted = FALSE
    /\ first_key = <<>>
    /\ file_text = <<>>
    /\ written = <<>>
    /\ txt_stem = <<>>
    /\ serie_str = <<>>
    /\ date_str = <<>>

SegInit ==
    /\ BatchIdle
    /\ PeopleIdle
    /\ DivideIdle
    /\ \E bs \in SeqsUpTo(Blocks, MaxBlocks) :
          /\ extracted_doc = DocOf(bs)
          /\ doc_ents = EntsFrom(bs, 1)
    /\ all_ents = <<>>
    /\ i = 0
    /\ current_secretaria = <<>>
    /\ result = <<>>
    /\ emitted = <<>>
    /\ pc = "seg_start"

\* Lines 184-189.
SegStart ==
    /\ pc = "seg_start"
    /\ all_ents' = AllEnts(doc_ents)
    /\ i' = 1
    /\ current_secretaria' = <<>>
    /\ result' = <<>>
    /\ pc' = "seg_loop"
    /\ UNCHANGED <<extracted_doc, doc_ents, emitted>>
    /\ UNCHANGED batchVars
    /\ UNCHANGED peopleVars
    /\ UNCHANGED divVars

\* Lines 192-193.
SegSecretaria ==
    /\ pc = "seg_loop"
    /\ i <= Len(all_ents)
    /\ all_ents[i].label = "SECRETARIA"
    /\ current_secretaria' = EntText(extracted_doc, all_ents[i])
    /\ i' = i + 1
    /\ UNCHANGED <<extracted_doc, doc_ents, all_ents, result, emitted, pc>>
    /\ UNCHANGED batchVars
    /\ UNCHANGED peopleVars
    /\ UNCHANGED divVars

\* Lines 195-213.
SegDes ==
    /\ pc = "seg_loop"
    /\ i <= Len(all_ents)
    /\ all_ents[i].label = "DES"
    /\ current_secretaria # <<>>
    /\ LET chunk    == ChunkOf(extracted_doc, all_ents, i, current_secretaria)
           metadata == Metadata(chunk, current_secretaria)
           key      == KeyOf(EntText(extracted_doc, all_ents[i]))
       IN /\ result' = AddFirstOnly(result, key, metadata)
          /\ emitted' = IF result' # result
                        THEN Append(emitted,
                                    [ key   |-> key,
                                      idx   |-> i,
                                      start |-> all_ents[i].start,
                                      end   |-> ChunkEnd(extracted_doc, all_ents, i) ])
                        ELSE emitted
    /\ i' = i + 1
    /\ UNCHANGED <<extracted_doc, doc_ents, all_ents, current_secretaria, pc>>
    /\ UNCHANGED batchVars
    /\ UNCHANGED peopleVars
    /\ UNCHANGED divVars

\* Line 195, condition false: a DES with no section yet falls through.
SegDesNoSection ==
    /\ pc = "seg_loop"
    /\ i <= Len(all_ents)
    /\ all_ents[i].label = "DES"
    /\ current_secretaria = <<>>
    /\ i' = i + 1
    /\ UNCHANGED <<extracted_doc, doc_ents, all_ents, current_secretaria, result, emitted, pc>>
    /\ UNCHANGED batchVars
    /\ UNCHANGED peopleVars
    /\ UNCHANGED divVars

\* Line 215.
SegReturn ==
    /\ pc = "seg_loop"
    /\ i > Len(all_ents)
    /\ pc' = "seg_done"
    /\ UNCHANGED segVars
    /\ UNCHANGED batchVars
    /\ UNCHANGED peopleVars
    /\ UNCHANGED divVars

SegNext == SegStart \/ SegSecretaria \/ SegDes \/ SegDesNoSection \/ SegReturn

SpecSeg == SegInit /\ [][SegNext]_vars

(***************************************************************************)
(* Claims about the Segmenter.                                             *)
(***************************************************************************)
\* Position (in all_ents) of the latest SECRETARIA match before position k, 0 if none.
LastBannerBefore(k) ==
    LET B == {j \in 1..(k - 1) : all_ents[j].label = "SECRETARIA"}
    IN IF B = {} THEN 0 ELSE CHOOSE j \in B : \A h \in B : h <= j

\* The section a walk in start order attributes to position k (<<>> if none).
SectionAt(k) ==
    IF LastBannerBefore(k) = 0 THEN <<>>
    ELSE EntText(extracted_doc, all_ents[LastBannerBefore(k)])

\* The DES matches already walked that carry title key and have a section.
OccurrencesOf(key) ==
    {j \in 1..Len(all_ents) :
        /\ j < i
        /\ all_ents[j].label = "DES"
        /\ KeyOf(EntText(extracted_doc, all_ents[j])) = key
        /\ LastBannerBefore(j) # 0}

FirstOccurrence(key) == CHOOSE j \in OccurrencesOf(key) : \A h \in OccurrencesOf(key) : j <= h

SegWalking == pc \in {"seg_loop", "seg_done"}

\* C1: the titles of the record set are pairwise distinct, every title maps to
\* a list of exactly one metadata object, and that object is the one built from
\* the first occurrence of the title that has a section defined; every title
\* with such an occurrence is present.
C1_FirstOccurrenceWins ==
    SegWalking =>
        /\ \A a, b \in 1..Len(result) : result[a].key = result[b].key => a = b
        /\ \A a \in 1..Len(result) :
              LET key == result[a].key
              IN /\ OccurrencesOf(key) # {}
                 /\ Len(result[a].val) = 1
                 /\ result[a].val[1] =
                       Metadata(ChunkOf(extracted_doc, all_ents, FirstOccurrence(key),
                                        SectionAt(FirstOccurrence(key))),
                                SectionAt(FirstOccurrence(key)))
        /\ \A j \in 1..Len(all_ents) :
              (j < i /\ all_ents[j].label = "DES" /\ LastBannerBefore(j) # 0)
                 => DictHas(result, KeyOf(EntText(extracted_doc, all_ents[j])))

\* C1 witness: the walk is over and a title occurred twice with a section, the
\* later occurrence carrying a different chunk than the retained one.
C1_Witness ==
    /\ pc = "seg_done"
    /\ \E a \in 1..Len(result) :
          \E j \in OccurrencesOf(result[a].key) :
             /\ j # FirstOccurrence(result[a].key)
             /\ ChunkOf(extracted_doc, all_ents, j, SectionAt(j)) # result[a].val[1].chunk

\* Emitted entries a < b are neighbours inside the run of one banner match.
NeighboursInSection(a, b) ==
    /\ b = a + 1
    /\ LastBannerBefore(emitted[a].idx) = LastBannerBefore(emitted[b].idx)

\* Token position p lies inside a SECTION_BANNER match (stripped banner text).
InBannerText(p) ==
    \E j \in 1..Len(all_ents) :
        all_ents[j].label = "SECRETARIA" /\ all_ents[j].start <= p /\ p < all_ents[j].end

\* C2 (as claimed): within a section the emitted chunks leave no gap other than
\* banner text, also when a title occurs more than once in the section.
C2_CoveringAlways ==
    pc = "seg_done" =>
        \A a, b \in 1..Len(emitted) :
            NeighboursInSection(a, b) =>
                \A p \in emitted[a].end..(emitted[b].start - 1) : InBannerText(p)

\* The ACT_HEADER matches attributed to the banner match at position s.
HeadersOf(s) ==
    {j \in 1..Len(all_ents) : all_ents[j].label = "DES" /\ LastBannerBefore(j) = s}

\* Header j repeats the title of an earlier header that has a section.
RepeatsTitle(j) ==
    \E h \in 1..(j - 1) :
        /\ all_ents[h].label = "DES"
        /\ LastBannerBefore(h) # 0
        /\ KeyOf(EntText(extracted_doc, all_ents[h])) = KeyOf(EntText(extracted_doc, all_ents[j]))

\* C2 (amended): for a banner match none of whose headers repeats a title that
\* already produced an entry, every header of the section is emitted and each
\* emitted chunk ends exactly where the next one starts.
C2_CoveringWithoutRepeats ==
    pc = "seg_done" =>
        \A s \in 1..Len(all_ents) :
            (all_ents[s].label = "SECRETARIA" /\ \A j \in HeadersOf(s) : ~RepeatsTitle(j)) =>
                /\ \A j \in HeadersOf(s) : \E a \in 1..Len(emitted) : emitted[a].idx = j
                /\ \A a, b \in 1..Len(emitted) :
                      (emitted[a].idx \in HeadersOf(s) /\ emitted[b].idx = emitted[a].idx + 1)
                         => emitted[a].end = emitted[b].start

\* C2 witness: a section with two emitted entries and no repeated title.
C2_Witness ==
    /\ pc = "seg_done"
    /\ \E s \in 1..Len(all_ents) :
          /\ all_ents[s].label = "SECRETARIA"
          /\ \A j \in HeadersOf(s) : ~RepeatsTitle(j)
          /\ \E a, b \in 1..Len(emitted) :
                /\ emitted[a].idx \in HeadersOf(s)
                /\ emitted[b].idx = emitted[a].idx + 1
                /\ emitted[a].end < Len(extracted_doc)

\* The SECTION_BANNER matches of the document that start before token offset p.
BannersBefore(p) == {e \in Range(doc_ents) : e.label = "SECRETARIA" /\ e.start < p}

\* The latest of them.
LatestBannerBefore(p) ==
    CHOOSE e \in BannersBefore(p) : \A f \in BannersBefore(p) : f.start <= e.start

\* C11: every emitted entry's section is the text of the latest SECTION_BANNER
\* match that starts before the entry's ACT_HEADER, and an ACT_HEADER with no
\* SECTION_BANNER before it produces no entry.
C11_SectionAttribution ==
    SegWalking =>
        \A a \in 1..Len(emitted) :
            /\ BannersBefore(emitted[a].start) # {}
            /\ \E r \in 1..Len(result) :
                  /\ result[r].key = emitted[a].key
                  /\ result[r].val[1].secretaria =
                        EntText(extracted_doc, LatestBannerBefore(emitted[a].start))

\* C11 witness: an entry under the second of two different banners, in a
\* document that also has a header before any banner.
C11_Witness ==
    /\ pc = "seg_done"
    /\ \E e \in Range(doc_ents) : e.label = "DES" /\ BannersBefore(e.start) = {}
    /\ \E a \in 1..Len(emitted) :
          \E b \in BannersBefore(emitted[a].start) :
              EntText(extracted_doc, b) #
                  EntText(extracted_doc, LatestBannerBefore(emitted[a].start))

(***************************************************************************)
(* Batch loops over the files of a directory.                              *)
(*   TXT_PROCESSING.py  process_txt_and_truncate                           *)
(*                      parse_directory_and_print_header_blocks            *)
(*                      remove_text_after_last_header_block                *)
(*                      remove_all_header_blocks                           *)
(*   DIVIDE_TXT.py      divide_txt_and_update_json over the paired files   *)
(*   JSON_HEADER.py     the loop over the .txt files of INPUT_DIR          *)
(* One iteration is: the loop header takes the next file, the file(s) are  *)
(* read (which reveals their content, or raises), the body computes and    *)
(* writes.  An exception nobody catches leaves the loop.                   *)
(***************************************************************************)
\* Bound: number of files a batch loop iterates over.
MaxFiles == 2
\* Bound: length of a text (characters) in the truncate pass.
MaxTextLen == 5
\* Bound: length of a title (characters) in the truncate pass.
MaxKeyLen == 2
\* Bound: number of pieces a text of the masthead passes is made of.
MaxPieces == 3

Chars == {"a", "b"}

Passes == {"truncate", "print_headers", "after_last_header", "remove_headers",
           "divide", "json_header"}

\* What opening and parsing a record (.json) file can meet.  A parsed mapping
\* is the list of its keys, in file order.
JsonFiles ==
    { [state |-> "missing",     keys |-> <<>>],
      [state |-> "undecodable", keys |-> <<>>],
      [state |-> "invalid",     keys |-> <<>>],
      [state |-> "list",        keys |-> <<>>] }
    \cup { [state |-> "dict", keys |-> ks] : ks \in SeqsUpTo(SeqsUpTo(Chars, MaxKeyLen), 1) }

\* The exception raised by open(json_path) + json.load(jf) + data.keys(), or "none".
JsonLoadRaises(json) ==
    CASE json.state = "missing"     -> "FileNotFoundError"
      [] json.state = "undecodable" -> "UnicodeDecodeError"
      [] json.state = "invalid"     -> "JSONDecodeError"
      [] json.state = "list"        -> "AttributeError"
      [] OTHER                      -> "none"

\* TXT_PROCESSING.py lines 180-185: the exception of the try block, or "none".
FirstKeyRaises(json) ==
    IF JsonLoadRaises(json) # "none" THEN JsonLoadRaises(json)
    ELSE IF json.keys = <<>> THEN "StopIteration"
    ELSE "none"

\* Line 184: except (FileNotFoundError, StopIteration)
FirstKeyCaught == {"FileNotFoundError", "StopIteration"}

\* str.find(sub, start): lowest 0-based index >= start where sub occurs, else -1.
Find(s, sub, start) ==
    LET P == {q \in start..Len(s) : MatchesAt(s, sub, q)}
    IN IF P = {} THEN -1 ELSE CHOOSE q \in P : \A r \in P : q <= r

RECURSIVE CountFrom(_, _, _)
CountFrom(s, sub, from) ==
    IF Find(s, sub, from) = -1 THEN 0
    ELSE 1 + CountFrom(s, sub, Find(s, sub, from) + Len(sub))

\* str.count(sub): the number of non-overlapping occurrences.
Count(s, sub) == IF sub = <<>> THEN Len(s) + 1 ELSE CountFrom(s, sub, 0)

\* Mutant of Truncated: the second occurrence is searched from first_pos + 1.
TruncatedOverlapping(txt, title) ==
    IF Count(txt, title) >= 2
    THEN LET first_pos  == Find(txt, title, 0)
             second_pos == Find(txt, title, first_pos + 1)
         IN IF second_pos # -1 THEN Slice(txt, second_pos, Len(txt)) ELSE txt
    ELSE txt

\* Lines 199-211: the text to write.
Truncated(txt, title) ==
    IF Count(txt, title) >= 2
    THEN LET first_pos  == Find(txt, title, 0)
             second_pos == Find(txt, title, first_pos + Len(title))
         IN IF second_pos # -1 THEN Slice(txt, second_pos, Len(txt)) ELSE txt
    ELSE txt

\* HEADER_BLOCK_PATTERN (lines 28-43), token by token: the four orderings of
\* number, hyphen + weekday letter and date, then the newline and the issue line.
HeaderAlternatives ==
    << <<"NUM", "-", "LET", "DATE">>,
       <<"DATE", "LET", "-", "NUM">>,
       <<"NUM", "DATE">>,
       <<"DATE", "NUM">> >>

HeaderIssueLine == <<"NL", "NUMERO">>

\* End offset of the match of HEADER_BLOCK_PATTERN that starts at offset q, or
\* -1; the alternatives are tried in order.
HeaderMatchEnd(txt, q) ==
    LET A == {a \in 1..Len(HeaderAlternatives) :
                 MatchesAt(txt, HeaderAlternatives[a] \o HeaderIssueLine, q)}
    IN IF A = {} THEN -1
       ELSE q + Len(HeaderAlternatives[CHOOSE a \in A : \A b \in A : a <= b]) + Len(HeaderIssueLine)

RECURSIVE HeaderFindIter(_, _)
\* list(HEADER_BLOCK_PATTERN.finditer(text)): scan left to right, resume after a match.
HeaderFindIter(txt, q) ==
    IF q >= Len(txt) THEN <<>>
    ELSE IF HeaderMatchEnd(txt, q) # -1
         THEN <<[start |-> q, end |-> HeaderMatchEnd(txt, q)]>>
              \o HeaderFindIter(txt, HeaderMatchEnd(txt, q))
         ELSE HeaderFindIter(txt, q + 1)

\* Mutant of CutAfterLast: the first match is taken instead of the last.
CutAfterFirst(txt, matches) == Slice(txt, 0, matches[1].end)

\* Lines 267-269: text[:matches[-1].end()]
CutAfterLast(txt, matches) == Slice(txt, 0, matches[Len(matches)].end)

RECURSIVE RemoveMatches(_, _, _)
\* Line 285: HEADER_BLOCK_PATTERN.sub('', text); from is where the copy resumes.
RemoveMatches(txt, matches, from) ==
    IF matches = <<>> THEN Slice(txt, from, Len(txt))
    ELSE Slice(txt, from, Head(matches).start)
         \o RemoveMatches(txt, Tail(matches), Head(matches).end)

\* The pieces the texts of the masthead passes are made of: the four mastheads,
\* body text, and fragments that look like part of a masthead.
MastheadPieces ==
    { HeaderAlternatives[a] \o HeaderIssueLine : a \in 1..Len(HeaderAlternatives) }
    \cup { <<"w">>, <<"NUM">>, <<"DATE">>, HeaderIssueLine }

MastheadTexts == { Concat(ps) : ps \in SeqsUpTo(MastheadPieces, MaxPieces) }

\* Bound: number of pieces a filename stem is made of.
MaxStemPieces == 4

Digit == "9"

\* \d{4}-\d{2}-\d{2}, character by character.
IsoDateShape == <<"d", "d", "d", "d", "-", "d", "d", "-", "d", "d">>

\* The class of a character of a stem: "d" for a digit, else the character.
CharClass(c) == IF c = Digit THEN "d" ELSE c

\* The pattern -(\d{4}-\d{2}-\d{2}) matches at 0-based offset q of st.
DashDateAt(st, q) ==
    /\ q + 1 + Len(IsoDateShape) <= Len(st)
    /\ st[q + 1] = "-"
    /\ \A n \in 1..Len(IsoDateShape) : CharClass(st[q + 1 + n]) = IsoDateShape[n]

\* DIVIDE_TXT.py lines 64-70: re.search(r'^(.*?)-(\d{4}-\d{2}-\d{2})', stem); the
\* lazy group 1 stops at the first hyphen that a date follows.
SerieAndDate(st) ==
    LET Q == {q \in 0..Len(st) : DashDateAt(st, q)}
    IN IF Q = {} THEN [serie |-> st, date |-> <<>>]
       ELSE LET q == CHOOSE x \in Q : \A y \in Q : x <= y
            IN [serie |-> Slice(st, 0, q),
                date  |-> Slice(st, q + 1, q + 1 + Len(IsoDateShape))]

\* The pieces the stems are made of: a letter, a hyphen, a digit, an ISO date.
StemPieces ==
    { <<"S">>, <<"-">>, <<Digit>>,
      <<Digit, Digit, Digit, Digit, "-", Digit, Digit, "-", Digit, Digit>> }

Stems == { Concat(ps) : ps \in SeqsUpTo(StemPieces, MaxStemPieces) } \ {<<>>}

\* DIVIDE_TXT.py lines 73-78: what json.loads(read_text()) and data.keys() do.
\* The try block catches every Exception of the load; data.keys() is outside it.
DivideLoadCaught == {"UnicodeDecodeError", "JSONDecodeError"}

\* The Segmenter variables while no segmentation runs.
SegIdle ==
    /\ extracted_doc = <<>>
    /\ doc_ents = <<>>
    /\ all_ents = <<>>
    /\ i = 0
    /\ current_secretaria = <<>>
    /\ result = <<>>
    /\ emitted = <<>>

\* The locals of one iteration, before anything is read.
ClearLocals ==
    /\ first_key' = <<>>
    /\ file_text' = <<>>
    /\ written' = <<>>
    /\ txt_stem' = <<>>
    /\ serie_str' = <<>>
    /\ date_str' = <<>>

KeepLocals == UNCHANGED <<first_key, file_text, written, txt_stem, serie_str, date_str>>

BatchInit ==
    /\ SegIdle
    /\ PeopleIdle
    /\ DivideIdle
    /\ pass \in Passes
    /\ nfiles \in 1..MaxFiles
    /\ file_no = 0
    /\ outcome = [f \in 1..nfiles |-> "pending"]
    /\ aborted = FALSE
    /\ first_key = <<>>
    /\ file_text = <<>>
    /\ written = <<>>
    /\ txt_stem = <<>>
    /\ serie_str = <<>>
    /\ date_str = <<>>
    /\ pc = "for"

\* The current iteration ends with what for the current file; control is back
\* at the loop header.
Iterated(what) ==
    /\ outcome' = [outcome EXCEPT ![file_no] = what]
    /\ pc' = "for"
    /\ UNCHANGED <<pass, nfiles, file_no, aborted>>

\* An exception nobody catches leaves the loop and ends the script.
Propagates(exception) ==
    /\ outcome' = [outcome EXCEPT ![file_no] = exception]
    /\ aborted' = TRUE
    /\ pc' = "exit"
    /\ UNCHANGED <<pass, nfiles, file_no>>

\* The loop header (TXT_PROCESSING.py lines 172, 233, 260, 280): the next file.
ForNext ==
    /\ pc = "for"
    /\ file_no < nfiles
    /\ file_no' = file_no + 1
    /\ pc' = "read"
    /\ ClearLocals
    /\ UNCHANGED <<pass, nfiles, outcome, aborted>>
    /\ UNCHANGED segVars
    /\ UNCHANGED peopleVars
    /\ UNCHANGED divVars

\* The loop is exhausted.
ForEnd ==
    /\ pc = "for"
    /\ file_no = nfiles
    /\ pc' = "exit"
    /\ UNCHANGED batchVars
    /\ UNCHANGED segVars
    /\ UNCHANGED peopleVars
    /\ UNCHANGED divVars

\* Lines 173-174, 234-235, 261-262, 281-282: not a .txt file: continue.
NotATextFile ==
    /\ pc = "read"
    /\ pass # "divide"
    /\ Iterated("not_txt")
    /\ KeepLocals
    /\ UNCHANGED segVars
    /\ UNCHANGED peopleVars
    /\ UNCHANGED divVars

\* Lines 180-190: the record file gives no key (absent file, empty mapping,
\* empty title): continue.
TruncNoKey ==
    /\ pc = "read"
    /\ pass = "truncate"
    /\ \E json \in JsonFiles :
          \/ FirstKeyRaises(json) \in FirstKeyCaught
          \/ FirstKeyRaises(json) = "none" /\ json.keys[1] = <<>>
    /\ Iterated("no_key")
    /\ KeepLocals
    /\ UNCHANGED segVars
    /\ UNCHANGED peopleVars
    /\ UNCHANGED divVars

\* Lines 180-185: an exception of the try block that the except clause does not name.
TruncJsonRaises ==
    /\ pc = "read"
    /\ pass = "truncate"
    /\ \E json \in JsonFiles :
          /\ FirstKeyRaises(json) \notin FirstKeyCaught \cup {"none"}
          /\ Propagates(FirstKeyRaises(json))
    /\ KeepLocals
    /\ UNCHANGED segVars
    /\ UNCHANGED peopleVars
    /\ UNCHANGED divVars

\* Lines 180-196, the text file cannot be decoded: tf.read() raises.
TruncTextRaises ==
    /\ pc = "read"
    /\ pass = "truncate"
    /\ \E json \in JsonFiles :
          /\ FirstKeyRaises(json) = "none"
          /\ json.keys[1] # <<>>
          /\ first_key' = json.keys[1]
    /\ Propagates("UnicodeDecodeError")
    /\ UNCHANGED <<file_text, written, txt_stem, serie_str, date_str>>
    /\ UNCHANGED segVars
    /\ UNCHANGED peopleVars
    /\ UNCHANGED divVars

\* Lines 180-196: key and text are read.
TruncRead ==
    /\ pc = "read"
    /\ pass = "truncate"
    /\ \E json \in JsonFiles :
          /\ FirstKeyRaises(json) = "none"
          /\ json.keys[1] # <<>>
          /\ first_key' = json.keys[1]
    /\ file_text' \in SeqsUpTo(Chars, MaxTextLen)
    /\ pc' = "body"
    /\ UNCHANGED <<pass, nfiles, file_no, outcome, aborted, written, txt_stem, serie_str, date_str>>
    /\ UNCHANGED segVars
    /\ UNCHANGED peopleVars
    /\ UNCHANGED divVars

\* Lines 198-220: count, truncate, write.
TruncWrite ==
    /\ pc = "body"
    /\ pass = "truncate"
    /\ written' = <<Truncated(file_text, first_key)>>
    /\ Iterated("written")
    /\ UNCHANGED <<first_key, file_text, txt_stem, serie_str, date_str>>
    /\ UNCHANGED segVars
    /\ UNCHANGED peopleVars
    /\ UNCHANGED divVars

\* Lines 236-240: read_text inside try / except Exception: continue.
PrintReadFails ==
    /\ pc = "read"
    /\ pass = "print_headers"
    /\ Iterated("unreadable")
    /\ KeepLocals
    /\ UNCHANGED segVars
    /\ UNCHANGED peopleVars
    /\ UNCHANGED divVars

\* Lines 263, 283: read_text raises (the file cannot be decoded).
MastheadReadRaises ==
    /\ pc = "read"
    /\ pass \in {"after_last_header", "remove_headers"}
    /\ Propagates("UnicodeDecodeError")
    /\ KeepLocals
    /\ UNCHANGED segVars
    /\ UNCHANGED peopleVars
    /\ UNCHANGED divVars

\* Lines 237, 263, 283: the text is read.
MastheadRead ==
    /\ pc = "read"
    /\ pass \in {"print_headers", "after_last_header", "remove_headers"}
    /\ file_text' \in MastheadTexts
    /\ pc' = "body"
    /\ UNCHANGED <<pass, nfiles, file_no, outcome, aborted, first_key, written, txt_stem, serie_str, date_str>>
    /\ UNCHANGED segVars
    /\ UNCHANGED peopleVars
    /\ UNCHANGED divVars

\* Lines 242-249: the blocks are printed, nothing is written.
PrintBlocks ==
    /\ pc = "body"
    /\ pass = "print_headers"
    /\ Iterated("unchanged")
    /\ KeepLocals
    /\ UNCHANGED segVars
    /\ UNCHANGED peopleVars
    /\ UNCHANGED divVars

\* Lines 264-272.
AfterLastHeader ==
    /\ pc = "body"
    /\ pass = "after_last_header"
    /\ LET matches == HeaderFindIter(file_text, 0)
       IN IF matches = <<>>
          THEN /\ Iterated("unchanged")
               /\ KeepLocals
          ELSE /\ written' = <<CutAfterLast(file_text, matches)>>
               /\ Iterated("written")
               /\ UNCHANGED <<first_key, file_text, txt_stem, serie_str, date_str>>
    /\ UNCHANGED segVars
    /\ UNCHANGED peopleVars
    /\ UNCHANGED divVars

\* Lines 283-289.
RemoveAllHeaders ==
    /\ pc = "body"
    /\ pass = "remove_headers"
    /\ LET cleaned_text == RemoveMatches(file_text, HeaderFindIter(file_text, 0), 0)
       IN IF cleaned_text = file_text
          THEN /\ Iterated("unchanged")
               /\ KeepLocals
          ELSE /\ written' = <<cleaned_text>>
               /\ Iterated("written")
               /\ UNCHANGED <<first_key, file_text, txt_stem, serie_str, date_str>>
    /\ UNCHANGED segVars
    /\ UNCHANGED peopleVars
    /\ UNCHANGED divVars

\* DIVIDE_TXT.py lines 55-60: a paired path that is not a regular file.
DivideNotAFile ==
    /\ pc = "read"
    /\ pass = "divide"
    /\ Propagates("ValueError")
    /\ KeepLocals
    /\ UNCHANGED segVars
    /\ UNCHANGED peopleVars
    /\ UNCHANGED divVars

\* DIVIDE_TXT.py lines 62-70: serie and date from the stem of the text file.
DivideDerive ==
    /\ pc = "read"
    /\ pass = "divide"
    /\ \E st \in Stems :
          /\ txt_stem' = st
          /\ serie_str' = SerieAndDate(st).serie
          /\ date_str' = SerieAndDate(st).date
    /\ pc' = "load"
    /\ UNCHANGED <<pass, nfiles, file_no, outcome, aborted, first_key, file_text, written>>
    /\ UNCHANGED segVars
    /\ UNCHANGED peopleVars
    /\ UNCHANGED divVars

\* DIVIDE_TXT.py lines 73-77: the record file cannot be read as JSON: return.
DivideJsonError ==
    /\ pc = "load"
    /\ pass = "divide"
    /\ \E json \in JsonFiles : JsonLoadRaises(json) \in DivideLoadCaught
    /\ Iterated("json_error")
    /\ KeepLocals
    /\ UNCHANGED segVars
    /\ UNCHANGED peopleVars
    /\ UNCHANGED divVars

\* DIVIDE_TXT.py line 78: the JSON value is no mapping: data.keys() raises.
DivideNotAMapping ==
    /\ pc = "load"
    /\ pass = "divide"
    /\ \E json \in JsonFiles : JsonLoadRaises(json) = "AttributeError"
    /\ Propagates("AttributeError")
    /\ KeepLocals
    /\ UNCHANGED segVars
    /\ UNCHANGED peopleVars
    /\ UNCHANGED divVars

\* DIVIDE_TXT.py lines 79-81: an empty mapping: return.
DivideNoKeys ==
    /\ pc = "load"
    /\ pass = "divide"
    /\ \E json \in JsonFiles : JsonLoadRaises(json) = "none" /\ json.keys = <<>>
    /\ Iterated("no_key")
    /\ KeepLocals
    /\ UNCHANGED segVars
    /\ UNCHANGED peopleVars
    /\ UNCHANGED divVars

\* DIVIDE_TXT.py line 83: the text file cannot be decoded.
DivideTextRaises ==
    /\ pc = "load"
    /\ pass = "divide"
    /\ \E json \in JsonFiles : JsonLoadRaises(json) = "none" /\ json.keys # <<>>
    /\ Propagates("UnicodeDecodeError")
    /\ KeepLocals
    /\ UNCHANGED segVars
    /\ UNCHANGED peopleVars
    /\ UNCHANGED divVars

\* DIVIDE_TXT.py lines 83-90: no header of the record set starts a line: return.
DivideNoHeaders ==
    /\ pc = "load"
    /\ pass = "divide"
    /\ \E json \in JsonFiles : JsonLoadRaises(json) = "none" /\ json.keys # <<>>
    /\ Iterated("no_headers")
    /\ KeepLocals
    /\ UNCHANGED segVars
    /\ UNCHANGED peopleVars
    /\ UNCHANGED divVars

\* DIVIDE_TXT.py lines 92-125: the segments are written and the record set is
\* written back, carrying serie and date.
DivideSegments ==
    /\ pc = "load"
    /\ pass = "divide"
    /\ \E json \in JsonFiles : JsonLoadRaises(json) = "none" /\ json.keys # <<>>
    /\ Iterated("written")
    /\ KeepLocals
    /\ UNCHANGED segVars
    /\ UNCHANGED peopleVars
    /\ UNCHANGED divVars

\* JSON_HEADER.py lines 247-248: the text file cannot be decoded.
HeaderReadRaises ==
    /\ pc = "read"
    /\ pass = "json_header"
    /\ Propagates("UnicodeDecodeError")
    /\ KeepLocals
    /\ UNCHANGED segVars
    /\ UNCHANGED peopleVars
    /\ UNCHANGED divVars

\* JSON_HEADER.py lines 252-254: no custom entity in the document: continue.
HeaderNoEntities ==
    /\ pc = "read"
    /\ pass = "json_header"
    /\ Iterated("no_entities")
    /\ KeepLocals
    /\ UNCHANGED segVars
    /\ UNCHANGED peopleVars
    /\ UNCHANGED divVars

\* JSON_HEADER.py lines 256-259: nothing between SUM and SEC_DES_SUM: continue.
HeaderNoExtract ==
    /\ pc = "read"
    /\ pass = "json_header"
    /\ Iterated("no_extract")
    /\ KeepLocals
    /\ UNCHANGED segVars
    /\ UNCHANGED peopleVars
    /\ UNCHANGED divVars

\* JSON_HEADER.py lines 261-265: the record set of the document is saved (the
\* segmentation itself is the walk of SpecSeg).
HeaderSave ==
    /\ pc = "read"
    /\ pass = "json_header"
    /\ Iterated("written")
    /\ KeepLocals
    /\ UNCHANGED segVars
    /\ UNCHANGED peopleVars
    /\ UNCHANGED divVars

BatchNext ==
    \/ ForNext \/ ForEnd \/ NotATextFile
    \/ TruncNoKey \/ TruncJsonRaises \/ TruncTextRaises \/ TruncRead \/ TruncWrite
    \/ PrintReadFails \/ MastheadReadRaises \/ MastheadRead
    \/ PrintBlocks \/ AfterLastHeader \/ RemoveAllHeaders
    \/ DivideNotAFile \/ DivideDerive \/ DivideJsonError \/ DivideNotAMapping
    \/ DivideNoKeys \/ DivideTextRaises \/ DivideNoHeaders \/ DivideSegments
    \/ HeaderReadRaises \/ HeaderNoEntities \/ HeaderNoExtract \/ HeaderSave

SpecBatch == BatchInit /\ [][BatchNext]_vars

(***************************************************************************)
(* Claims about the truncation passes and the batch loops.                 *)
(***************************************************************************)
\* The offsets at which title occurs in txt.
OccurrencesIn(txt, title) == {q \in 0..Len(txt) : MatchesAt(txt, title, q)}

\* The occurrences of title in txt that do not overlap the first one.
AfterFirstOccurrence(txt, title) ==
    {q \in OccurrencesIn(txt, title) : q >= Least(OccurrencesIn(txt, title)) + Len(title)}

\* A file of the truncate pass has just been written.
TruncWritten ==
    pass = "truncate" /\ pc = "for" /\ file_no >= 1 /\ outcome[file_no] = "written"

\* C3: if the title occurs at least twice (without overlap) in the text, the
\* written result is the suffix of the text that starts at the second
\* occurrence; if it occurs once or not at all, the written result is the text.
C3_FrontTruncation ==
    TruncWritten =>
        IF OccurrencesIn(file_text, first_key) # {}
           /\ AfterFirstOccurrence(file_text, first_key) # {}
        THEN written = << Slice(file_text, Least(AfterFirstOccurrence(file_text, first_key)),
                                Len(file_text)) >>
        ELSE written = <<file_text>>

\* C3 witness: a written file whose title occurs twice, the second occurrence
\* neither at the start of the text nor right after an overlapping one.
C3_Witness ==
    /\ TruncWritten
    /\ Cardinality(OccurrencesIn(file_text, first_key)) >= 3
    /\ AfterFirstOccurrence(file_text, first_key) # {}
    /\ written # <<file_text>>

\* A file of the back-truncation pass has just been handled.
AfterLastDone ==
    pass = "after_last_header" /\ pc = "for" /\ file_no >= 1
    /\ outcome[file_no] \in {"unchanged", "written"}

\* The end offsets of the masthead matches of txt.
MastheadEnds(txt) == {HeaderMatchEnd(txt, q) : q \in 0..Len(txt)} \ {-1}

\* C4: with no masthead match the file is left as it is; otherwise its new
\* content is the prefix of the text that ends where the last masthead match ends.
C4_BackTruncation ==
    AfterLastDone =>
        IF MastheadEnds(file_text) = {}
        THEN outcome[file_no] = "unchanged" /\ written = <<>>
        ELSE outcome[file_no] = "written"
             /\ written = <<Slice(file_text, 0, Greatest(MastheadEnds(file_text)))>>

\* C4 witness: a text with two mastheads and text after the last one.
C4_Witness ==
    /\ AfterLastDone
    /\ Cardinality(MastheadEnds(file_text)) >= 2
    /\ Greatest(MastheadEnds(file_text)) < Len(file_text)
    /\ outcome[file_no] = "written"

\* C9: a failure on one document (missing, malformed or undecodable input)
\* never aborts the batch: when a batch loop is left, every document of the
\* batch has been processed.
C9_BatchNeverAborts ==
    pc = "exit" => \A f \in 1..nfiles : outcome[f] # "pending"
\* A stem of the divide pass has just been split.
DivideDerived == pass = "divide" /\ pc = "load"

\* The stem ends with a hyphen and an ISO date.
EndsWithDate(st) ==
    Len(st) >= 1 + Len(IsoDateShape) /\ DashDateAt(st, Len(st) - 1 - Len(IsoDateShape))

\* C8: for a stem of the shape <series>-<YYYY-MM-DD>, the date its trailing
\* suffix, series is everything before the final "-<date>" and date is that
\* suffix; for every other stem series is the whole stem and date is empty.
C8_SeriesAndDate ==
    DivideDerived =>
        IF EndsWithDate(txt_stem)
        THEN /\ serie_str = Slice(txt_stem, 0, Len(txt_stem) - 1 - Len(IsoDateShape))
             /\ date_str = Slice(txt_stem, Len(txt_stem) - Len(IsoDateShape), Len(txt_stem))
        ELSE /\ serie_str = txt_stem
             /\ date_str = <<>>

(***************************************************************************)
(* NameNormalizer: people.py.  Strings are sequences of characters, so     *)
(* that lower(), find(), split(), strip() and the regular expression work  *)
(* on them as in the code.                                                 *)
(***************************************************************************)
\* The characters of the model, in code-point order.
CodeOrder ==
    << "\n", " ", "&", "'", "-", ".", "9", "A", "B", "C", "D", "E", "F", "G",
       "H", "I", "J", "K", "L", "M", "N", "O", "P", "Q", "R", "S", "T",
       "U", "V", "W", "X", "Y", "Z", "_", "a", "b", "c", "d", "e", "f",
       "g", "h", "i", "j", "k", "l", "m", "n", "o", "p", "q", "r", "s",
       "t", "u", "v", "w", "x", "y", "z", "À", "Á", "Â", "Ã", "Ç", "É",
       "Ê", "Í", "Ó", "Ô", "Õ", "Ú", "à", "á", "â", "ã", "ç", "é", "ê",
       "í", "ó", "ô", "õ", "ú" >>

\* The upper-case letters: A-Z and the accented ones of the regular expression.
UpperLetters ==
    << "A", "B", "C", "D", "E", "F", "G", "H", "I", "J", "K", "L", "M",
       "N", "O", "P", "Q", "R", "S", "T", "U", "V", "W", "X", "Y", "Z",
       "À", "Á", "Â", "Ã", "Ç", "É", "Ê", "Í", "Ó", "Ô", "Õ", "Ú" >>

\* Their lower-case forms, in the same order.
LowerLetters ==
    << "a", "b", "c", "d", "e", "f", "g", "h", "i", "j", "k", "l", "m",
       "n", "o", "p", "q", "r", "s", "t", "u", "v", "w", "x", "y", "z",
       "à", "á", "â", "ã", "ç", "é", "ê", "í", "ó", "ô", "õ", "ú" >>

\* Position of character c in CodeOrder: the order str comparison uses.
Rank(c) == CHOOSE n \in 1..Len(CodeOrder) : CodeOrder[n] = c

\* [A-ZÁÉÍÓÚÂÊÔÃÕÀÇ]
IsUpper(c) == \E n \in 1..Len(UpperLetters) : UpperLetters[n] = c

\* \w: a letter, a digit or the underscore.
IsWordChar(c) == c \in {"_", Digit} \/ IsUpper(c) \/ \E n \in 1..Len(LowerLetters) : LowerLetters[n] = c

\* c.lower()
LowerChar(c) ==
    IF IsUpper(c) THEN LowerLetters[CHOOSE n \in 1..Len(UpperLetters) : UpperLetters[n] = c]
    ELSE c

\* str.lower()
LowerStr(s) == [n \in 1..Len(s) |-> LowerChar(s[n])]

\* people.py line 6.
TRIM_KEYWORDS ==
    << <<"a", "n", "e", "x", "o">>,
       <<"n", "o", "t", "a", " ", "c", "u", "r", "r", "i", "c", "u", "l", "a", "r">>,
       <<"s", "e", "c", "r", "e", "t", "a", "r", "i", "a">> >>

\* people.py lines 8-17.
UNWANTED_WORDS ==
    << <<"f", "o", "r", "m", "a", "ç", "ã", "o">>,
       <<"p", "r", "o", "f", "i", "s", "s", "i", "o", "n", "a", "l">>,
       <<"i", "n", "f", "r", "a", "e", "s", "t", "r", "u", "t", "u", "r", "a", "s">>,
       <<"d", "e", "s", "p", "a", "c", "h", "o">>,
       <<"c", "o", "n", "j", "u", "n", "t", "o">>,
       <<"m", "a", "d", "e", "i", "r", "a">>,
       <<"c", "â", "m", "a", "r", "a">>,
       <<"c", "h", "e", "f", "e">>,
       <<"e", "s", "t", "u", "d", "o", "s">>,
       <<"c", "o", "o", "r", "d", "e", "n", "a", "ç", "ã", "o">>,
       <<"a", "u", "t", "o", "r", "i", "d", "a", "d", "e">>,
       <<"a", "s", "s", "u", "n", "t", "o", "s">>,
       <<"f", "i", "s", "c", "a", "i", "s">>,
       <<"r", "e", "g", "i", "o", "n", "a", "l">>,
       <<"s", "e", "c", "r", "e", "t", "á", "r", "i", "a">>,
       <<"&">>,
       <<"d", "i", "r", "e", "t", "o", "r">>,
       <<"d", "i", "r", "e", "t", "o", "r", "a">>,
       <<"h", "a", "b", "i", "l", "i", "t", "a", "ç", "õ", "e", "s">>,
       <<"l", "i", "t", "e", "r", "á", "r", "i", "a", "s">>,
       <<"p", "r", "o", "f", "e", "s", "s", "o", "r">>,
       <<"p", "r", "o", "f", "e", "s", "s", "o", "r", "a">>,
       <<"c", "o", "n", "v", "i", "d", "a", "d", "o">>,
       <<"c", "o", "n", "v", "i", "d", "a", "d", "a">>,
       <<"s", "i", "s", "t", "e", "m", "a", "s">>,
       <<"i", "n", "f", "o", "r", "m", "a", "ç", "ã", "o">>,
       <<"t", "e", "c", "n", "o", "l", "o", "g", "i", "a", "s">>,
       <<"e", "s", "p", "e", "c", "i", "a", "l", "i", "s", "t", "a">>,
       <<"r", "e", "c", "u", "r", "s", "o", "s">>,
       <<"h", "u", "m", "a", "n", "o", "s">>,
       <<"a", "p", "o", "i", "o">>,
       <<"f", "a", "m", "í", "l", "i", "a">>,
       <<"i", "d", "o", "s", "a">>,
       <<"i", "d", "o", "s", "o">>,
       <<"a", "s", "s", "i", "s", "t", "e", "n", "t", "e">>,
       <<"v", "o", "g", "a", "l">>,
       <<"c", "o", "n", "s", "e", "l", "h", "o">>,
       <<"d", "i", "r", "e", "t", "i", "v", "o">>,
       <<"b", "i", "l", "h", "e", "t", "e">>,
       <<"i", "d", "e", "n", "t", "i", "d", "a", "d", "e">>,
       <<"i", "n", "s", "p", "e", "t", "o", "r", "a">>,
       <<"t", "r", "i", "b", "u", "t", "á", "r", "i", "a">>,
       <<"t", "r", "i", "b", "u", "t", "á", "r", "i", "o">>,
       <<"s", "e", "c", "u", "n", "d", "á", "r", "i", "a">>,
       <<"b", "o", "l", "s", "e", "i", "r", "o">>,
       <<"b", "o", "l", "s", "e", "i", "r", "a">>,
       <<"i", "n", "v", "e", "s", "t", "i", "g", "a", "d", "o", "r">>,
       <<"i", "n", "v", "e", "s", "t", "i", "g", "a", "d", "o", "r", "a">> >>

\* people.py lines 20-28.
NAME_TITLES ==
    << <<"L", "i", "c", "e", "n", "c", "i", "a", "d", "o">>,
       <<"L", "i", "c", "e", "n", "c", "i", "a", "d", "a">>,
       <<"D", "o", "u", "t", "o", "r">>,
       <<"D", "o", "u", "t", "o", "r", "a">>,
       <<"M", "e", "s", "t", "r", "e">>,
       <<"M", "e", "s", "t", "r", "a">>,
       <<"M", "e", "s", "t", "r", "a", "n", "d", "o">>,
       <<"M", "e", "s", "t", "r", "a", "n", "d", "a">>,
       <<"D", "o", "u", "t", "o", "r", "a", "n", "d", "o">>,
       <<"D", "o", "u", "t", "o", "r", "a", "n", "d", "a">>,
       <<"P", "ó", "s", "-", "D", "o", "u", "t", "o", "r">>,
       <<"P", "ó", "s", "-", "D", "o", "u", "t", "o", "r", "a">> >>

RECURSIVE Split(_)
\* str.split(): the maximal runs of non-whitespace characters.
Split(s) ==
    LET t == LStrip(s)
        W == {n \in 1..Len(t) : t[n] \in Whitespace}
        e == IF W = {} THEN Len(t) + 1 ELSE Least(W)
    IN IF t = <<>> THEN <<>>
       ELSE <<SubSeq(t, 1, e - 1)>> \o Split(SubSeq(t, e, Len(t)))

RECURSIVE JoinSpace(_)
\* " ".join(words)
JoinSpace(words) ==
    IF words = <<>> THEN <<>>
    ELSE IF Len(words) = 1 THEN words[1]
    ELSE words[1] \o <<" ">> \o JoinSpace(Tail(words))

\* a < b for strings: lexicographic in code-point order.
StrLess(a, b) ==
    \E n \in 1..(Len(b)) :
        /\ n - 1 <= Len(a)
        /\ SubSeq(a, 1, n - 1) = SubSeq(b, 1, n - 1)
        /\ (n > Len(a) \/ Rank(a[n]) < Rank(b[n]))

RECURSIVE remove_single_word_entities(_)
\* people.py lines 37-38.
remove_single_word_entities(entities) ==
    IF entities = <<>> THEN <<>>
    ELSE (IF Len(Split(Head(entities))) > 1 THEN <<Head(entities)>> ELSE <<>>)
         \o remove_single_word_entities(Tail(entities))

RECURSIVE CutIndex(_, _, _)
\* people.py lines 42-46: the loop over the keywords.
CutIndex(text_lower, keywords, cut_index) ==
    IF keywords = <<>> THEN cut_index
    ELSE LET index == Find(text_lower, LowerStr(Head(keywords)), 0)
         IN CutIndex(text_lower, Tail(keywords),
                     IF index # -1 /\ index < cut_index THEN index ELSE cut_index)

\* people.py lines 40-47.
trim_after_keywords(txt, keywords) ==
    Strip(Slice(txt, 0, CutIndex(LowerStr(txt), keywords, Len(txt))))

\* The set of possible results of normalize_and_deduplicate (people.py lines
\* 49-51): sorted() is stable and iterates a set of str, whose order is not
\* fixed, so strings of equal length come in any order.
normalize_and_deduplicate(entities) ==
    LET normalized == {JoinSpace(Split(entities[n])) : n \in 1..Len(entities)}
        size == Cardinality(normalized)
    IN {p \in [1..size -> normalized] :
           /\ \A a, b \in 1..size : a # b => p[a] # p[b]
           /\ \A a, b \in 1..size : a < b => Len(p[a]) <= Len(p[b])}

\* The sort key of people.py line 54: (len(x.split()), x).
PrefixKeyLess(a, b) ==
    \/ Len(Split(a)) < Len(Split(b))
    \/ Len(Split(a)) = Len(Split(b)) /\ StrLess(a, b)

RECURSIVE SortedByPrefixKey(_)
\* sorted(set(entities), key=lambda x: (len(x.split()), x))
SortedByPrefixKey(S) ==
    IF S = {} THEN <<>>
    ELSE LET first == CHOOSE x \in S : \A y \in S \ {x} : PrefixKeyLess(x, y)
         IN <<first>> \o SortedByPrefixKey(S \ {first})

\* Variant of IsExtension: no entity is ever taken for an extension.
NeverExtension(ent, kept_list) == FALSE

\* people.py lines 57-63: ent extends a kept entity.
IsExtension(ent, kept_list) ==
    \E n \in 1..Len(kept_list) :
        LET ent_tokens  == Split(ent)
            kept_tokens == Split(kept_list[n])
        IN Slice(ent_tokens, 0, Len(kept_tokens)) = kept_tokens

RECURSIVE KeepLoop(_, _)
\* people.py lines 56-65: the loop over sorted_entities.
KeepLoop(sorted_entities, kept_list) ==
    IF sorted_entities = <<>> THEN kept_list
    ELSE KeepLoop(Tail(sorted_entities),
                  IF IsExtension(Head(sorted_entities), kept_list) THEN kept_list
                  ELSE Append(kept_list, Head(sorted_entities)))

\* people.py lines 53-66.
keep_shortest_prefix_entities(entities) ==
    KeepLoop(SortedByPrefixKey(Range(entities)), <<>>)

RECURSIVE remove_entities_with_unwanted_words(_, _)
\* people.py lines 68-75.
remove_entities_with_unwanted_words(entities, unwanted_words) ==
    IF entities = <<>> THEN <<>>
    ELSE LET ent_words == Range(Split(LowerStr(Head(entities))))
             unwanted  == {LowerStr(unwanted_words[n]) : n \in 1..Len(unwanted_words)}
         IN (IF unwanted \cap ent_words = {} THEN <<Head(entities)>> ELSE <<>>)
            \o remove_entities_with_unwanted_words(Tail(entities), unwanted_words)

\* \s of the regular expression.
RegexSpace == {" ", "\n"}

RECURSIVE SkipSpace(_, _)
\* \s*: the offset after the whitespace that starts at offset q.
SkipSpace(s, q) == IF q < Len(s) /\ s[q + 1] \in RegexSpace THEN SkipSpace(s, q + 1) ELSE q

RECURSIVE WordRunEnd(_, _)
\* [\w\-']*: the offset after the run of such characters that starts at offset q.
WordRunEnd(s, q) ==
    IF q < Len(s) /\ (IsWordChar(s[q + 1]) \/ s[q + 1] \in {"-", "'"})
    THEN WordRunEnd(s, q + 1) ELSE q

\* [A-Z...][\w\-']+ at offset q: the offset after it, or -1.
NamePartEnd(s, q) ==
    IF q < Len(s) /\ IsUpper(s[q + 1]) /\ WordRunEnd(s, q + 1) > q + 1
    THEN WordRunEnd(s, q + 1) ELSE -1

RECURSIVE MoreNameParts(_, _)
\* (?:\s+[A-Z...][\w\-']+)*, greedy, from offset e: the offset after it.
MoreNameParts(s, e) ==
    IF SkipSpace(s, e) > e /\ NamePartEnd(s, SkipSpace(s, e)) # -1
    THEN MoreNameParts(s, NamePartEnd(s, SkipSpace(s, e)))
    ELSE e

\* Group 2 of the pattern at offset q: the offset after it, or -1.
NameGroupEnd(s, q) ==
    IF NamePartEnd(s, q) # -1 /\ MoreNameParts(s, NamePartEnd(s, q)) > NamePartEnd(s, q)
    THEN MoreNameParts(s, NamePartEnd(s, q)) ELSE -1

\* The titles (by position in NAME_TITLES) with which the pattern matches at q.
TitlesMatchingAt(s, q) ==
    {t \in 1..Len(NAME_TITLES) :
        /\ MatchesAt(s, NAME_TITLES[t], q)
        /\ SkipSpace(s, q + Len(NAME_TITLES[t])) > q + Len(NAME_TITLES[t])
        /\ NameGroupEnd(s, SkipSpace(s, q + Len(NAME_TITLES[t]))) # -1}

\* \b before a title at offset q.
WordBoundaryAt(s, q) == q = 0 \/ ~IsWordChar(s[q])

RECURSIVE RegexFindAll(_, _)
\* re.findall(pattern, text) of people.py lines 31-32, from offset q: the
\* groups (title, names) of the matches, left to right, not overlapping.
RegexFindAll(s, q) ==
    IF q >= Len(s) THEN <<>>
    ELSE IF WordBoundaryAt(s, q) /\ TitlesMatchingAt(s, q) # {}
         THEN LET title == NAME_TITLES[Least(TitlesMatchingAt(s, q))]
                  from  == SkipSpace(s, q + Len(title))
                  to    == NameGroupEnd(s, from)
              IN <<[title |-> title, names |-> Slice(s, from, to)]>> \o RegexFindAll(s, to)
         ELSE RegexFindAll(s, q + 1)

RECURSIVE NotKnown(_, _)
\* people.py line 35.
NotKnown(new_names, known_entities) ==
    IF new_names = <<>> THEN <<>>
    ELSE (IF Head(new_names) \notin Range(known_entities) THEN <<Head(new_names)>> ELSE <<>>)
         \o NotKnown(Tail(new_names), known_entities)

\* Variant without the regular expression: nothing is ever found.
FallbackFindsNothing(txt, known_entities) == <<>>

\* people.py lines 30-35.
fallback_regex_name_extraction(txt, known_entities) ==
    LET matches   == RegexFindAll(txt, 0)
        new_names == [n \in 1..Len(matches) |->
                         matches[n].title \o <<" ">> \o matches[n].names]
    IN NotKnown(new_names, known_entities)

RECURSIVE RStripDots(_)
\* str.rstrip('.')
RStripDots(w) ==
    IF w # <<>> /\ w[Len(w)] = "." THEN RStripDots(SubSeq(w, 1, Len(w) - 1)) ELSE w

RECURSIVE WithoutTitles(_, _)
\* The words that are not titles.
WithoutTitles(ent_words, titles_lower) ==
    IF ent_words = <<>> THEN <<>>
    ELSE (IF RStripDots(LowerStr(Head(ent_words))) \in titles_lower THEN <<>>
          ELSE <<Head(ent_words)>>)
         \o WithoutTitles(Tail(ent_words), titles_lower)

\* Variant that removes a title wherever it stands in the entity.
StripTitleAnywhere(ent, titles) ==
    LET titles_lower == {LowerStr(titles[n]) : n \in 1..Len(titles)}
        ent_words    == Split(Strip(ent))
    IN IF WithoutTitles(ent_words, titles_lower) # ent_words
       THEN JoinSpace(WithoutTitles(ent_words, titles_lower))
       ELSE ent

\* people.py lines 81-86, for one entity.
StripTitle(ent, titles) ==
    LET titles_lower == {LowerStr(titles[n]) : n \in 1..Len(titles)}
        ent_words    == Split(Strip(ent))
    IN IF ent_words # <<>> /\ RStripDots(LowerStr(ent_words[1])) \in titles_lower
       THEN JoinSpace(Tail(ent_words))
       ELSE ent

\* people.py lines 77-87.
remove_titles_from_entities(entities, titles) ==
    [n \in 1..Len(entities) |-> StripTitle(entities[n], titles)]

(***************************************************************************)
(* extract_people_from_chunk as a state machine.  A chunk is a short       *)
(* sequence of spans joined by single spaces; the spans marked per are     *)
(* the entities the tagger labels PER.                                     *)
(***************************************************************************)
MaxSpans == 2

PeopleSpans ==
    {
       [per |-> TRUE, chars |-> <<"M", "a", "r", "i", "a">>],
       [per |-> TRUE, chars |-> <<"A", "n", "a", " ", "R", "e", "i", "s">>],
       [per |-> TRUE, chars |-> <<"A", "n", "a", "\n", "R", "e", "i", "s">>],
       [per |-> TRUE, chars |-> <<"A", "n", "a", " ", "R", "e", "i", "s", " ", "S", "i", "l", "v", "a">>],
       [per |-> TRUE, chars |-> <<"D", "o", "u", "t", "o", "r", "a", " ", "A", "n", "a", " ", "R", "e", "i", "s">>],
       [per |-> TRUE, chars |-> <<"D", "o", "u", "t", "o", "r", "a", " ", "A", "n", "a">>],
       [per |-> TRUE, chars |-> <<"D", "o", "u", "t", "o", "r", ".", " ", "R", "u", "i", " ", "S", "i", "l", "v", "a">>],
       [per |-> TRUE, chars |-> <<"A", "n", "a", " ", "D", "o", "u", "t", "o", "r", "a", " ", "R", "e", "i", "s">>],
       [per |-> TRUE, chars |-> <<"A", "n", "a", " ", "R", "e", "i", "s", " ", "A", "n", "e", "x", "o">>],
       [per |-> TRUE, chars |-> <<"A", "n", "e", "x", "o", " ", "A", "n", "a", " ", "R", "e", "i", "s">>],
       [per |-> TRUE, chars |-> <<"C", "h", "e", "f", "e", " ", "A", "n", "a", " ", "R", "e", "i", "s">>],
       [per |-> FALSE, chars |-> <<"D", "o", "u", "t", "o", "r", "a", " ", "A", "n", "a", " ", "R", "e", "i", "s">>],
       [per |-> FALSE, chars |-> <<"e">>],
       [per |-> FALSE, chars |-> <<"D", "o", "u", "t", "o", "r", " ", "R", "u", "i", " ", "S", "i", "l", "v", "a", " ", "e", " ", "D", "o", "u", "t", "o", "r", " ", "R", "u", "i", " ", "S", "i", "l", "v", "a">>],
       [per |-> FALSE, chars |-> <<"M", "e", "s", "t", "r", "a", "n", "d", "a", " ", "R", "u", "i">>] }

\* The chunk text made of the spans.
TextOfSpans(spans) == JoinSpace([n \in 1..Len(spans) |-> spans[n].chars])

RECURSIVE PerOfSpans(_)
\* people.py line 92: [ent.text.strip() for ent in doc.ents if ent.label_ == "PER"]
PerOfSpans(spans) ==
    IF spans = <<>> THEN <<>>
    ELSE (IF Head(spans).per THEN <<Strip(Head(spans).chars)>> ELSE <<>>)
         \o PerOfSpans(Tail(spans))

\* people.py line 95.
TrimAll(entities) ==
    [n \in 1..Len(entities) |-> trim_after_keywords(entities[n], TRIM_KEYWORDS)]

\* people.py lines 94-96: the stages before normalize_and_deduplicate.
ShortestPrefixes(candidates) ==
    keep_shortest_prefix_entities(TrimAll(remove_single_word_entities(candidates)))

PeopleInit ==
    /\ SegIdle
    /\ BatchIdle
    /\ DivideIdle
    /\ \E spans \in SeqsUpTo(PeopleSpans, MaxSpans) :
          /\ chunk_text = TextOfSpans(spans)
          /\ tagged_per = PerOfSpans(spans)
    /\ stages = <<>>
    /\ people = <<>>
    /\ people_again = <<>>
    /\ pc = "call"

\* people.py lines 90-107.
extract_people_from_chunk ==
    /\ pc = "call"
    /\ LET single  == remove_single_word_entities(tagged_per)
           trimmed == TrimAll(single)
           kept    == keep_shortest_prefix_entities(trimmed)
       IN \E normalized \in normalize_and_deduplicate(kept) :
             LET filtered == remove_entities_with_unwanted_words(normalized, UNWANTED_WORDS)
                 found    == IF filtered = <<>>
                             THEN fallback_regex_name_extraction(chunk_text, <<>>)
                             ELSE filtered
             IN /\ stages' = [single |-> single, trimmed |-> trimmed, kept |-> kept,
                              normalized |-> normalized, filtered |-> filtered,
                              found |-> found]
                /\ people' = remove_titles_from_entities(found, NAME_TITLES)
    /\ pc' = "returned"
    /\ UNCHANGED <<chunk_text, tagged_per, people_again>>
    /\ UNCHANGED segVars
    /\ UNCHANGED batchVars
    /\ UNCHANGED divVars

\* The returned list fed back as the candidate list through the stages of
\* people.py lines 94-98 and 104.
StagesAgain ==
    /\ pc = "returned"
    /\ \E normalized \in normalize_and_deduplicate(ShortestPrefixes(people)) :
          people_again' = remove_titles_from_entities(
                              remove_entities_with_unwanted_words(normalized, UNWANTED_WORDS),
                              NAME_TITLES)
    /\ pc' = "again"
    /\ UNCHANGED <<chunk_text, tagged_per, stages, people>>
    /\ UNCHANGED segVars
    /\ UNCHANGED batchVars
    /\ UNCHANGED divVars

PeopleNext ==
    \/ extract_people_from_chunk
    \/ StagesAgain

SpecPeople == PeopleInit /\ [][PeopleNext]_vars

(***************************************************************************)
(* Claims about the NameNormalizer.                                        *)
(***************************************************************************)
Returned == pc \in {"returned", "again"}

\* C5: feeding the returned list back through the stages returns it again.
C5_Idempotent == pc = "again" => people_again = people

\* C10: the returned list contains no string twice.
C10_NoDuplicates ==
    Returned => \A a, b \in 1..Len(people) : a # b => people[a] # people[b]

\* The tagger returned exactly one PER candidate, and it is a single token.
OnlySingleTokenCandidate ==
    /\ Len(tagged_per) = 1
    /\ Len(Split(tagged_per[1])) = 1

\* C6 as stated: a chunk whose only PER candidate is a single token yields
\* the empty list, whatever else the chunk text contains.
C6_SingleTokenGivesEmpty ==
    Returned /\ OnlySingleTokenCandidate => people = <<>>

IsSpaceChar(c) == c \in {" ", "\n"}

IsNameChar(c) == IsWordChar(c) \/ c \in {"-", "'"}

\* Offsets a..b-1 of s hold whitespace only, and at least one character.
SpaceRun(s, a, b) == a < b /\ b <= Len(s) /\ \A n \in (a + 1)..b : IsSpaceChar(s[n])

\* A capitalised word of at least two characters fills offsets a..b-1 of s.
CapitalisedWord(s, a, b) ==
    /\ a + 2 <= b
    /\ b <= Len(s)
    /\ IsUpper(s[a + 1])
    /\ \A n \in (a + 2)..b : IsNameChar(s[n])

\* Somewhere in s a title of NAME_TITLES starts at a word boundary and is
\* followed by whitespace, a capitalised word, whitespace and another one.
TitledNameIn(s) ==
    \E q \in 0..Len(s), t \in 1..Len(NAME_TITLES) :
        /\ q = 0 \/ ~IsWordChar(s[q])
        /\ q + Len(NAME_TITLES[t]) <= Len(s)
        /\ \A n \in 1..Len(NAME_TITLES[t]) : s[q + n] = NAME_TITLES[t][n]
        /\ \E a \in 0..Len(s) :
              /\ SpaceRun(s, q + Len(NAME_TITLES[t]), a)
              /\ \E b \in 0..Len(s) :
                    /\ CapitalisedWord(s, a, b)
                    /\ \E c \in 0..Len(s) :
                          /\ SpaceRun(s, b, c)
                          /\ \E d \in 0..Len(s) : CapitalisedWord(s, c, d)

\* C6, amended: a chunk whose only PER candidate is a single token yields the
\* empty list exactly when its text holds no title of NAME_TITLES followed by
\* two or more capitalised words; otherwise the regex fallback's names come back.
C6_EmptyUnlessTitledName ==
    Returned /\ OnlySingleTokenCandidate => (people = <<>> <=> ~TitledNameIn(chunk_text))

C6_Witness ==
    /\ Returned
    /\ OnlySingleTokenCandidate
    /\ Len(chunk_text) > Len(tagged_per[1])
    /\ ~TitledNameIn(chunk_text)
    /\ people = <<>>

\* tok, lower-cased and without trailing periods, is a title of NAME_TITLES.
IsTitleToken(tok) ==
    \E t \in 1..Len(NAME_TITLES), dots \in 0..Len(tok) :
        LowerStr(tok) = LowerStr(NAME_TITLES[t]) \o [n \in 1..dots |-> "."]

\* C7: title-stripping is prefix-only: a candidate whose first token is a title
\* comes back as its remaining tokens, in order and unaltered; any other
\* candidate comes back unchanged.
C7_TitleStripPrefixOnly ==
    Returned =>
        /\ Len(people) = Len(stages.found)
        /\ \A n \in 1..Len(people) :
              LET tokens == Split(stages.found[n])
              IN IF tokens # <<>> /\ IsTitleToken(tokens[1])
                 THEN Split(people[n]) = Tail(tokens)
                 ELSE people[n] = stages.found[n]

\* The first token of ent is a title and others follow it.
StartsWithTitle(ent) == Len(Split(ent)) > 1 /\ IsTitleToken(Split(ent)[1])

\* A token of ent other than the first is a title, the first is not.
HasInnerTitle(ent) ==
    /\ Len(Split(ent)) > 1
    /\ ~IsTitleToken(Split(ent)[1])
    /\ \E w \in 2..Len(Split(ent)) : IsTitleToken(Split(ent)[w])

C7_Witness ==
    /\ Returned
    /\ \E n, m \in 1..Len(people) :
          /\ StartsWithTitle(stages.found[n])
          /\ Len(Split(people[n])) = Len(Split(stages.found[n])) - 1
          /\ HasInnerTitle(stages.found[m])
          /\ people[m] = stages.found[m]

\* The token sequence of x is a prefix of the token sequence of y.
IsTokenPrefix(x, y) ==
    /\ Len(Split(x)) <= Len(Split(y))
    /\ \A n \in 1..Len(Split(x)) : Split(x)[n] = Split(y)[n]

\* x comes before y in (token count, lexical order).
BeforeInKeyOrder(x, y) ==
    \/ Len(Split(x)) < Len(Split(y))
    \/ Len(Split(x)) = Len(Split(y)) /\ StrLess(x, y)

\* C13: the result of keep_shortest_prefix_entities is ordered by (token count,
\* lexical order), holds no two candidates one of whose token sequences is a
\* prefix of the other's, and lacks a candidate of the input only if the token
\* sequence of a kept candidate is a prefix of its own.
C13_ShortestPrefixes ==
    Returned =>
        /\ \A a, b \in 1..Len(stages.kept) :
              a < b => BeforeInKeyOrder(stages.kept[a], stages.kept[b])
        /\ \A a, b \in 1..Len(stages.kept) :
              a # b => ~IsTokenPrefix(stages.kept[a], stages.kept[b])
        /\ \A n \in 1..Len(stages.kept) : stages.kept[n] \in Range(stages.trimmed)
        /\ \A n \in 1..Len(stages.trimmed) :
              stages.trimmed[n] \notin Range(stages.kept) =>
                  \E k \in 1..Len(stages.kept) :
                      IsTokenPrefix(stages.kept[k], stages.trimmed[n])

\* C13 witness: one candidate was dropped as the extension of a kept one that
\* has fewer tokens.
C13_Witness ==
    /\ Returned
    /\ \E n \in 1..Len(stages.trimmed), k \in 1..Len(stages.kept) :
          /\ stages.trimmed[n] \notin Range(stages.kept)
          /\ IsTokenPrefix(stages.kept[k], stages.trimmed[n])
          /\ Len(Split(stages.kept[k])) < Len(Split(stages.trimmed[n]))
          /\ Len(Split(stages.kept[k])) > 0

\* C16: every name extract_people_from_chunk returns is non-empty and has at
\* least two whitespace-separated tokens.
C16_FullNamesOnly ==
    Returned => \A n \in 1..Len(people) : people[n] # <<>> /\ Len(Split(people[n])) >= 2

(***************************************************************************)
(* Segment writing: DIVIDE_TXT.py divide_txt_and_update_json, for one      *)
(* paired record file and cleaned text.  A dict (the record set, the files *)
(* of the output directory) is an insertion-ordered list of key/val items. *)
(***************************************************************************)
\* Bound: number of pieces the cleaned text is made of.
MaxDivPieces == 4

\* The titles of the record sets: two act headers and a blank title.
DivTitles == << <<"D", " ", "1">>, <<"D", " ", "2">>, <<" ">> >>

\* The key lists of the record files, in file order.
DivKeyLists ==
    { <<DivTitles[1]>>, <<DivTitles[1], DivTitles[2]>>, <<DivTitles[3], DivTitles[1]>> }

\* The pieces of a cleaned text: header lines, a header with no newline before
\* it, a blank line start, body text without and with a titled name.
DivPieces ==
    { <<"\n", "D", " ", "1">>,
      <<"\n", "D", " ", "2">>,
      <<"D", " ", "1">>,
      <<"\n", " ">>,
      <<" ", "x">>,
      <<" ", "D", "o", "u", "t", "o", "r", "a", " ", "A", "n", "a", " ", "R", "e", "i", "s">> }

\* txt_path.stem of the document.
DivStem == <<"S", "-", Digit, Digit, Digit, Digit, "-", Digit, Digit, "-", Digit, Digit>>

\* An entry of the record set as the Segmenter saved it (JSON_HEADER.py lines
\* 200-208), keeping the fields this pass writes; <<>> is an absent 'path'.
SavedEntry == [path |-> <<>>, pessoas |-> <<>>, serie |-> <<>>, date |-> <<>>]

\* The record set with the given keys.
RecordSetOf(keys) == [n \in 1..Len(keys) |-> [key |-> keys[n], val |-> <<SavedEntry>>]]

\* (?m)^ at offset q of s.
IsLineStart(s, q) == q = 0 \/ s[q] = "\n"

\* Lines 85-86: the first alternative of the pattern that matches at offset q
\* (its position in keys), 0 if none does.
KeyAt(s, keys, q) ==
    LET K == {n \in 1..Len(keys) : MatchesAt(s, keys[n], q)}
    IN IF K = {} THEN 0 ELSE Least(K)

RECURSIVE HeaderMatches(_, _, _)
\* Line 87: list(pattern.finditer(content)), from offset q on.
HeaderMatches(s, keys, q) ==
    IF q >= Len(s) THEN <<>>
    ELSE IF IsLineStart(s, q) /\ KeyAt(s, keys, q) # 0
         THEN <<[start |-> q, header |-> keys[KeyAt(s, keys, q)]]>>
              \o HeaderMatches(s, keys, q + Len(keys[KeyAt(s, keys, q)]))
         ELSE HeaderMatches(s, keys, q + 1)

\* Lines 100-102: segment_text of the match at (1-based) position k.
SegmentText(s, found, k) ==
    Strip(Slice(s, found[k].start,
                IF k + 1 <= Len(found) THEN found[k + 1].start ELSE Len(s)))

\* Variant of SegmentIsWritten: the test for an empty segment is lost.
AnySegmentIsWritten(segment_text) == TRUE

\* Lines 103-104: "if not segment_text: continue".
SegmentIsWritten(segment_text) == segment_text # <<>>

\* Line 107: re.sub(r'[\\/:*?"<>| ]', '_', header)
Sanitized(header) ==
    [n \in 1..Len(header) |->
        IF header[n] \in {"\\", "/", ":", "*", "?", "\"", "<", ">", "|", " "}
        THEN "_" ELSE header[n]]

\* Line 108: segment_path, as the file name inside file_dir.
SegmentPath(header) == Sanitized(header) \o <<".", "t", "x", "t">>

\* Line 114: extract_people_from_chunk(segment_text), for a text in which the
\* tagger labels no PER entity: the names of the regex fallback, titles stripped.
PeopleOfSegment(segment_text) ==
    remove_titles_from_entities(
        fallback_regex_name_extraction(segment_text, <<>>), NAME_TITLES)

\* Lines 112-117: every entry of data[header] gets path, pessoas, serie, date.
UpdatedEntries(d, header, segment_path, found_people) ==
    [n \in 1..Len(d) |->
        IF d[n].key = header
        THEN [key |-> d[n].key,
              val |-> [e \in 1..Len(d[n].val) |->
                          [path    |-> segment_path,
                           pessoas |-> found_people,
                           serie   |-> SerieAndDate(DivStem).serie,
                           date    |-> SerieAndDate(DivStem).date]]]
        ELSE d[n]]

DivideInit ==
    /\ SegIdle
    /\ BatchIdle
    /\ PeopleIdle
    /\ \E keys \in DivKeyLists :
          /\ div_data = RecordSetOf(keys)
          /\ json_on_disk = RecordSetOf(keys)
    /\ \E ps \in SeqsUpTo(DivPieces, MaxDivPieces) : div_content = Concat(ps)
    /\ div_matches = <<>>
    /\ div_idx = 0
    /\ div_files = <<>>
    /\ pc = "div_start"

\* Lines 83-96: the headers are found and the output directory is made.
DivStart ==
    /\ pc = "div_start"
    /\ HeaderMatches(div_content, [n \in 1..Len(div_data) |-> div_data[n].key], 0) # <<>>
    /\ div_matches' =
          HeaderMatches(div_content, [n \in 1..Len(div_data) |-> div_data[n].key], 0)
    /\ div_idx' = 1
    /\ pc' = "div_loop"
    /\ UNCHANGED <<div_data, div_content, div_files, json_on_disk>>
    /\ UNCHANGED segVars
    /\ UNCHANGED batchVars
    /\ UNCHANGED peopleVars

\* Lines 88-90: no header found, return.
DivNoMatch ==
    /\ pc = "div_start"
    /\ HeaderMatches(div_content, [n \in 1..Len(div_data) |-> div_data[n].key], 0) = <<>>
    /\ pc' = "div_returned"
    /\ UNCHANGED divVars
    /\ UNCHANGED segVars
    /\ UNCHANGED batchVars
    /\ UNCHANGED peopleVars

\* Lines 99-104: an empty segment is skipped.
DivSkipEmpty ==
    /\ pc = "div_loop"
    /\ div_idx <= Len(div_matches)
    /\ ~SegmentIsWritten(SegmentText(div_content, div_matches, div_idx))
    /\ div_idx' = div_idx + 1
    /\ UNCHANGED <<div_data, div_content, div_matches, div_files, json_on_disk, pc>>
    /\ UNCHANGED segVars
    /\ UNCHANGED batchVars
    /\ UNCHANGED peopleVars

\* Lines 99-118: the segment is written and the entries of its header updated.
DivSegment ==
    /\ pc = "div_loop"
    /\ div_idx <= Len(div_matches)
    /\ LET segment_text == SegmentText(div_content, div_matches, div_idx)
           header       == div_matches[div_idx].header
       IN /\ SegmentIsWritten(segment_text)
          /\ div_files' = DictSet(div_files, SegmentPath(header), segment_text)
          /\ div_data' = UpdatedEntries(div_data, header, SegmentPath(header),
                                        PeopleOfSegment(segment_text))
    /\ div_idx' = div_idx + 1
    /\ UNCHANGED <<div_content, div_matches, json_on_disk, pc>>
    /\ UNCHANGED segVars
    /\ UNCHANGED batchVars
    /\ UNCHANGED peopleVars

\* Line 109 raises (the file cannot be written): nothing catches it.
DivArtifactRaises ==
    /\ pc = "div_loop"
    /\ div_idx <= Len(div_matches)
    /\ SegmentIsWritten(SegmentText(div_content, div_matches, div_idx))
    /\ pc' = "div_raised"
    /\ UNCHANGED divVars
    /\ UNCHANGED segVars
    /\ UNCHANGED batchVars
    /\ UNCHANGED peopleVars

\* Line 114 raises (the name extraction fails on the segment): the segment file
\* of line 109 is already written, and nothing catches the exception.
DivPeopleRaises ==
    /\ pc = "div_loop"
    /\ div_idx <= Len(div_matches)
    /\ LET segment_text == SegmentText(div_content, div_matches, div_idx)
           header       == div_matches[div_idx].header
       IN /\ SegmentIsWritten(segment_text)
          /\ div_files' = DictSet(div_files, SegmentPath(header), segment_text)
    /\ pc' = "div_raised"
    /\ UNCHANGED <<div_data, div_content, div_matches, div_idx, json_on_disk>>
    /\ UNCHANGED segVars
    /\ UNCHANGED batchVars
    /\ UNCHANGED peopleVars

\* Lines 121-123: the record set is written back.
DivWriteBack ==
    /\ pc = "div_loop"
    /\ div_idx > Len(div_matches)
    /\ json_on_disk' = div_data
    /\ pc' = "div_done"
    /\ UNCHANGED <<div_data, div_content, div_matches, div_idx, div_files>>
    /\ UNCHANGED segVars
    /\ UNCHANGED batchVars
    /\ UNCHANGED peopleVars

\* Lines 121-125: writing the record file fails and the exception is printed;
\* the file is as it was, or truncated by the open for writing.
DivWriteBackFails ==
    /\ pc = "div_loop"
    /\ div_idx > Len(div_matches)
    /\ json_on_disk' \in {json_on_disk, <<>>}
    /\ pc' = "div_write_failed"
    /\ UNCHANGED <<div_data, div_content, div_matches, div_idx, div_files>>
    /\ UNCHANGED segVars
    /\ UNCHANGED batchVars
    /\ UNCHANGED peopleVars

DivideNext ==
    \/ DivStart
    \/ DivNoMatch
    \/ DivSkipEmpty
    \/ DivSegment
    \/ DivArtifactRaises
    \/ DivPeopleRaises
    \/ DivWriteBack
    \/ DivWriteBackFails

SpecDivide == DivideInit /\ [][DivideNext]_vars

\* The Segmenter followed, for another document, by the segment-writing pass:
\* the two places where an entry or an artifact is emitted.
SpecSegDivide == (SegInit \/ DivideInit) /\ [][SegNext \/ DivideNext]_vars

(***************************************************************************)
(* Claims about the segment-writing pass.                                  *)
(***************************************************************************)
DivWalking == pc \in {"div_loop", "div_done", "div_write_failed", "div_raised"}

\* The matches the loop has gone past.
DivHandled == {k \in 1..Len(div_matches) : k < div_idx}

\* C12: no emitted entry has an empty chunk, and the segment-writing pass
\* writes no artifact for an empty segment: every file it wrote holds the
\* non-empty text of a segment whose header names the file.
C12_NoEmptyChunk ==
    /\ SegWalking =>
          \A r \in 1..Len(result) : \A e \in 1..Len(result[r].val) :
              result[r].val[e].chunk # <<>>
    /\ DivWalking =>
          \A f \in 1..Len(div_files) :
              /\ div_files[f].val # <<>>
              /\ \E k \in 1..Len(div_matches) :
                    /\ SegmentPath(div_matches[k].header) = div_files[f].key
                    /\ SegmentText(div_content, div_matches, k) = div_files[f].val

\* C12 witness: the pass is over, it went past a segment that is empty after
\* stripping, and wrote a file for another one.
C12_Witness ==
    /\ pc = "div_done"
    /\ div_files # <<>>
    /\ \E k \in DivHandled : SegmentText(div_content, div_matches, k) = <<>>

\* The matches whose header is title and whose segment is not empty.
DivOccurrences(title) ==
    {k \in 1..Len(div_matches) :
        /\ div_matches[k].header = title
        /\ SegmentText(div_content, div_matches, k) # <<>>}

\* The segment of the first of them.
FirstSegmentOf(title) ==
    SegmentText(div_content, div_matches, Least(DivOccurrences(title)))

\* C14: when the pass has ended, for every title that matched, the artifact
\* stored under the title, and the 'path' and 'pessoas' of the title's entries
\* in the record file, are those of the first occurrence's segment.
C14_FirstSegmentWins ==
    pc = "div_done" =>
        \A r \in 1..Len(json_on_disk) :
            LET title == json_on_disk[r].key
            IN DivOccurrences(title) # {} =>
                  /\ \E f \in 1..Len(div_files) :
                        /\ div_files[f].key = SegmentPath(title)
                        /\ div_files[f].val = FirstSegmentOf(title)
                  /\ \A e \in 1..Len(json_on_disk[r].val) :
                        /\ json_on_disk[r].val[e].path = SegmentPath(title)
                        /\ json_on_disk[r].val[e].pessoas =
                              PeopleOfSegment(FirstSegmentOf(title))

\* Processing of the document failed: an exception left the function, or the
\* record file could not be written.
DivFailed == pc \in {"div_raised", "div_write_failed"}

\* The record file as it was before the pass.
RecordFileBefore == RecordSetOf([n \in 1..Len(div_data) |-> div_data[n].key])

\* C15: if processing of a document fails at any step, none of its results
\* remain persisted: no segment file written in this run is left on disk and
\* the record file is unchanged.
C15_NoPartialPersistence ==
    DivFailed => div_files = <<>> /\ json_on_disk = RecordFileBefore

====
